---- MODULE Spec2Model ----
(***************************************************************************)
(* Model of launch_file/src-py/cpp_parser.py: the Type classes with their  *)
(* layout (_calc) and decoding (_get_parts, parse), the Context/Template   *)
(* evaluator (Calculate) and the Preprocessor.                             *)
(*                                                                         *)
(* Python dicts are modelled as sequences of <<key, value>> pairs in       *)
(* insertion order with unique keys.  Decoded values are tagged records    *)
(* [k, v]; an exception raised by a decode is the value Fail.              *)
(***************************************************************************)
EXTENDS Integers, Sequences, FiniteSets, TLC

VARIABLES typ, data, parsed, parts, ctxs, tmpls, cur, status, tree, nvisit, nobj, resolved,
          compared,
          files, included_files, pragma_once, stack, returned, output, pstatus
\* typ    : the Type object last constructed (NoType before any)
\* data   : the buffer last handed to typ.parse
\* parsed : what that parse call produced (NoResult before any call)
\* parts  : the list _get_parts returned to that parse call (Struct, Array)

\* ctxs     : the Context objects, by identity; 0 is BASE_CTXT
\* tmpls    : the Template objects, by identity
\* cur      : the Context the running Calculate mutates (calc.ctxt)
\* status   : "idle", "parsing" (parse_file is visiting the tree) or "failed"
\*            (parse_file raised)
\* tree     : the top-level nodes of the current file visited so far
\* nvisit   : number of top-level nodes visited by all parse_file runs
\* nobj     : number of Struct/Enum/Union/Template objects created
\* resolved : what the last Template.resolve call returned
\* compared : <<a, b, a == b>> for the last comparison of two Type objects
\* files          : the header files on disk, each a sequence of lines
\* included_files : paths whose text Preprocessor has read and cached
\* pragma_once    : Preprocessor.pragma_once
\* stack          : the active preprocess() calls, innermost last
\* returned       : the text the innermost finished call handed to its caller
\* output         : what the outermost include_file call returned
\* pstatus        : "idle", "running", "done", "overflow" or "failed" (an exception left
\*                  include_file)

typeVars == <<typ, data, parsed, parts>>
calcVars == <<ctxs, tmpls, cur, status, tree, nvisit, nobj, resolved, compared>>
preVars == <<files, included_files, pragma_once, stack, returned, output, pstatus>>
vars == <<typ, data, parsed, parts, ctxs, tmpls, cur, status, tree, nvisit, nobj, resolved,
          compared,
          files, included_files, pragma_once, stack, returned, output, pstatus>>

----------------------------------------------------------------------------
(* Bounds of the model *)

MaxMembers == 2
MaxCount == 2
MaxVariants == 3
MaxEnumVal == 2
MaxLenDelta == 1
MaxCtx == 2
MaxDecls == 4
MaxLines == 3
MaxDepth == 3
MaxLayoutDecls == 2

----------------------------------------------------------------------------
(* Python helpers *)

Min(a, b) == IF a < b THEN a ELSE b

\* data[a:b] for 0 <= a <= b: indices are clamped to len(data)
Slice(s, a, b) ==
    LET lo == Min(a, Len(s))
        hi == Min(b, Len(s))
    IN  IF lo >= hi THEN <<>> ELSE [i \in 1..(hi - lo) |-> s[lo + i]]

\* d[k] = v on an insertion-ordered dict
DictSet(d, k, v) ==
    IF \E i \in 1..Len(d) : d[i][1] = k
    THEN [i \in 1..Len(d) |-> IF d[i][1] = k THEN <<k, v>> ELSE d[i]]
    ELSE Append(d, <<k, v>>)

DictHas(d, k) == \E i \in 1..Len(d) : d[i][1] = k
DictGet(d, k) == d[CHOOSE i \in 1..Len(d) : d[i][1] = k][2]
DictKeys(d) == {d[i][1] : i \in 1..Len(d)}
\* list(d.values())
DictValues(d) == [i \in 1..Len(d) |-> d[i][2]]

\* dict built from a list of (key, value) insertions, in order
RECURSIVE DictFrom(_)
DictFrom(pairs) ==
    IF pairs = <<>> THEN <<>>
    ELSE DictSet(DictFrom(SubSeq(pairs, 1, Len(pairs) - 1)),
                 pairs[Len(pairs)][1], pairs[Len(pairs)][2])

----------------------------------------------------------------------------
(* Type._calc *)

\* lines 128-129: advance idx to the next multiple of align
CalcPadMissing(idx, align) == idx
CalcPad(idx, align) ==
    IF (idx % align) # 0 THEN idx + (align - (idx % align)) ELSE idx

\* idx after the loop has handled the first k types (lines 124-130)
RECURSIVE CalcIdx(_, _)
CalcIdx(types, k) ==
    IF k = 0 THEN 0
    ELSE CalcPad(CalcIdx(types, k - 1), types[k].align) + types[k].size

\* max_align after the loop has handled the first k types (lines 125, 131-132)
RECURSIVE CalcMaxAlign(_, _)
CalcMaxAlign(types, k) ==
    IF k = 0 THEN 1
    ELSE LET m == CalcMaxAlign(types, k - 1)
         IN  IF types[k].align > m THEN types[k].align ELSE m

\* the returned tuple (idx, max_align), lines 133-135
CalcNoTrailing(types) ==
    [size |-> CalcIdx(types, Len(types)), align |-> CalcMaxAlign(types, Len(types))]
Calc(types) ==
    LET idx == CalcIdx(types, Len(types))
        max_align == CalcMaxAlign(types, Len(types))
    IN  [size |-> CalcPad(idx, max_align), align |-> max_align]

\* Type._get_parts, lines 147-154: idx after the loop has run over the first k
\* types
RECURSIVE PartsIdx(_, _)
PartsIdx(types, k) ==
    IF k = 0 THEN 0
    ELSE LET idx == PartsIdx(types, k - 1)
             align == types[k].align
             padded == IF (idx % align) # 0 THEN idx + (align - (idx % align)) ELSE idx
         IN  padded + types[k].size

\* slices taken back to back, without the alignment step of lines 150-151
GetPartsPacked(bytes, types) ==
    [k \in 1..Len(types) |->
        LET idx == IF k = 1 THEN 0 ELSE PartsIdx(types, k - 1)
        IN  Slice(bytes, idx, idx + types[k].size)]

\* Type._get_parts: the slice appended for the k-th type (lines 147-155)
GetParts(bytes, types) ==
    [k \in 1..Len(types) |->
        LET before == PartsIdx(types, k - 1)
            align == types[k].align
            idx == IF (before % align) # 0
                   THEN before + (align - (before % align)) ELSE before
        IN  Slice(bytes, idx, idx + types[k].size)]

----------------------------------------------------------------------------
(* The Type classes: constructors *)

NoType == [kind |-> "None"]

\* Integer.__init__(size, signed, align): size must be 1, 2, 4 or 8
IntegerInit(size, signed, align) ==
    [kind |-> "Integer", size |-> size, align |-> align, signed |-> signed]
\* Integer(size, signed) with align defaulting to size
Integer(size, signed) == IntegerInit(size, signed, size)

\* Float.__init__(size): size must be 4 or 8
Float(size) == [kind |-> "Float", size |-> size, align |-> size]

Boolean == [kind |-> "Boolean", size |-> 1, align |-> 1]

\* Enum.__init__(variants): variants maps value -> name; backed by 4 bytes
EnumInit(id, variants) ==
    [kind |-> "Enum", size |-> 4, align |-> 4, variants |-> variants, id |-> id]

\* Struct.__init__(members): members maps field name -> Type
StructInit(id, members) ==
    LET c == Calc(DictValues(members))
    IN  [kind |-> "Struct", size |-> c.size, align |-> c.align,
         members |-> members, id |-> id]

\* [item] * count (a negative count gives the empty list)
Repeat(item, count) == [i \in 1..count |-> item]

\* Array.__init__(item, count)
ArrayInit(item, count) ==
    LET c == Calc(Repeat(item, count))
    IN  [kind |-> "Array", size |-> c.size, align |-> c.align,
         item |-> item, count |-> count]

\* max(...) over a non-empty collection of integers
SetMax(S) == CHOOSE x \in S : \A y \in S : y <= x

\* Union.__init__(variants): variants maps name -> Type (never empty: the
\* grammar requires union_variant+)
UnionInit(id, variants) ==
    [kind |-> "Union",
     size |-> SetMax({variants[i][2].size : i \in 1..Len(variants)}),
     align |-> SetMax({variants[i][2].align : i \in 1..Len(variants)}),
     variants |-> variants, id |-> id]

----------------------------------------------------------------------------
(* Decoding: struct.unpack and the parse methods *)

NoResult == [k |-> "none", v |-> 0]
\* an exception raised by the decode call (struct.error, KeyError)
Fail == [k |-> "error", v |-> 0]

\* little-endian value of the first three bytes
LE3(b) == b[1] + 256 * b[2] + 65536 * b[3]
\* struct.unpack("i"): two's-complement value of four bytes
Signed32(b) == LE3(b) + 16777216 * (IF b[4] >= 128 THEN b[4] - 256 ELSE b[4])

AllBytes(b, from, to, x) == \A i \in from..to : b[i] = x

\* struct.unpack(self._format, data)[0] for the eight integer formats.  A value
\* outside the signed 32-bit range is kept as its base-256 digits.
UnpackInt(size, signed, b) ==
    IF Len(b) # size THEN Fail
    ELSE CASE size = 1 ->
                [k |-> "int", v |-> IF signed /\ b[1] >= 128 THEN b[1] - 256 ELSE b[1]]
           [] size = 2 ->
                LET u == b[1] + 256 * b[2]
                IN  [k |-> "int", v |-> IF signed /\ u >= 32768 THEN u - 65536 ELSE u]
           [] size = 4 ->
                IF signed \/ b[4] < 128
                THEN [k |-> "int", v |-> Signed32(b)]
                ELSE [k |-> "bigint", v |-> b]
           [] size = 8 ->
                IF AllBytes(b, 5, 8, 0) /\ b[4] < 128
                THEN [k |-> "int", v |-> Signed32(b)]
                ELSE IF signed /\ AllBytes(b, 5, 8, 255) /\ b[4] >= 128
                THEN [k |-> "int", v |-> Signed32(b)]
                ELSE [k |-> IF signed /\ b[8] >= 128 THEN "negbigint" ELSE "bigint",
                      v |-> b]

\* Integer.parse
IntegerParse(t, b) == UnpackInt(t.size, t.signed, b)

\* Float.parse: the IEEE-754 value is identified by its bit pattern
FloatParse(t, b) == IF Len(b) # t.size THEN Fail ELSE [k |-> "float", v |-> b]

\* Boolean.parse: struct.unpack("?")
BooleanParse(t, b) == IF Len(b) # 1 THEN Fail ELSE [k |-> "bool", v |-> b[1] # 0]

\* Enum.parse: unpack "i", then self.variants[as_int]
EnumParseRaw(t, b) ==
    IF Len(b) # 4 THEN Fail
    ELSE LET as_int == Signed32(b)
         IN  IF DictHas(t.variants, as_int)
             THEN [k |-> "str", v |-> DictGet(t.variants, as_int)]
             ELSE [k |-> "int", v |-> as_int]
EnumParse(t, b) ==
    IF Len(b) # 4 THEN Fail
    ELSE LET as_int == Signed32(b)
         IN  IF DictHas(t.variants, as_int)
             THEN [k |-> "str", v |-> DictGet(t.variants, as_int)]
             ELSE Fail

RECURSIVE ParseType(_, _)

\* a dict or list display whose items are decoded in order: the first
\* exception aborts the whole call
Collect(kind, items, vals) ==
    IF \E i \in 1..Len(vals) : vals[i] = Fail THEN Fail
    ELSE [k |-> kind, v |-> items]

\* Struct.parse
StructParse(t, b) ==
    LET slices == GetParts(b, DictValues(t.members))
        vals == [i \in 1..Len(t.members) |-> ParseType(t.members[i][2], slices[i])]
    IN  Collect("dict", [i \in 1..Len(t.members) |-> <<t.members[i][1], vals[i]>>], vals)

\* Array.parse
ArrayParse(t, b) ==
    LET slices == GetParts(b, Repeat(t.item, t.count))
        vals == [i \in 1..Len(slices) |-> ParseType(t.item, slices[i])]
    IN  Collect("list", vals, vals)

\* Union.parse: every variant reads data[:variant.size]
UnionParseWhole(t, b) ==
    LET vals == [i \in 1..Len(t.variants) |-> ParseType(t.variants[i][2], b)]
    IN  Collect("dict", [i \in 1..Len(t.variants) |-> <<t.variants[i][1], vals[i]>>], vals)
UnionParse(t, b) ==
    LET vals == [i \in 1..Len(t.variants) |->
                    ParseType(t.variants[i][2], Slice(b, 0, t.variants[i][2].size))]
    IN  Collect("dict", [i \in 1..Len(t.variants) |-> <<t.variants[i][1], vals[i]>>], vals)

\* typ.parse(data): dispatch on the class of typ
ParseType(t, b) ==
    CASE t.kind = "Integer" -> IntegerParse(t, b)
      [] t.kind = "Float" -> FloatParse(t, b)
      [] t.kind = "Boolean" -> BooleanParse(t, b)
      [] t.kind = "Enum" -> EnumParse(t, b)
      [] t.kind = "Struct" -> StructParse(t, b)
      [] t.kind = "Array" -> ArrayParse(t, b)
      [] t.kind = "Union" -> UnionParse(t, b)

----------------------------------------------------------------------------
(* Calculate.enum and the built-in types *)

\* an enum_variant without "= number"
NoValue == [has |-> FALSE, val |-> 0]
Explicit(n) == [has |-> TRUE, val |-> n]

\* `recent` when an explicit value does not reset it: variants count from 0
RECURSIVE EnumRecentCounting(_, _)
EnumRecentCounting(variants, k) ==
    IF k = 0 THEN 0 ELSE EnumRecentCounting(variants, k - 1) + 1

\* Calculate.enum, lines 460-468: `recent` after the first k variants
RECURSIVE EnumRecent(_, _)
EnumRecent(variants, k) ==
    IF k = 0 THEN 0
    ELSE (IF variants[k].value.has THEN variants[k].value.val
          ELSE EnumRecent(variants, k - 1)) + 1

\* the dict `enum` after the first k variants: enum[recent] = variant_name
RECURSIVE EnumDict(_, _)
EnumDict(variants, k) ==
    IF k = 0 THEN <<>>
    ELSE DictSet(EnumDict(variants, k - 1),
                 EnumRecent(variants, k) - 1, variants[k].name)

\* BASE_TYPES, lines 660-672
BASE_TYPES ==
    << <<"bool", Boolean>>,
       <<"char", Integer(1, TRUE)>>,
       <<"float", Float(4)>>,
       <<"int", Integer(4, FALSE)>>,
       <<"uint16_t", Integer(4, FALSE)>>,
       <<"uint32_t", Integer(4, FALSE)>>,
       <<"uint64_t", Integer(8, FALSE)>>,
       <<"int16_t", Integer(4, TRUE)>>,
       <<"int32_t", Integer(4, TRUE)>>,
       <<"int64_t", Integer(8, TRUE)>> >>

----------------------------------------------------------------------------
(* Context and Template objects *)

CtxIds == 0..(MaxCtx + 1)
\* where the Context made by Template.resolve lives until its renderer is dropped
ScratchCtx == MaxCtx + 1
\* every visit creates at most one object, and a behaviour may start where up
\* to MaxDecls objects exist already
ObjIds == 1..(2 * MaxDecls)

NoCtx == [kind |-> "free"]
NoTmpl == [kind |-> "free"]
NoResolution == [k |-> "unset"]
\* Template.resolve returning None
None == [k |-> "none"]
\* an exception raised while evaluating a node
Err == [k |-> "error"]

\* BASE_CTXT, lines 659-674
BASE_CTXT == [names |-> <<>>, types |-> BASE_TYPES, templates |-> <<>>]

\* Context.clone: the three mappings are copied
ContextClone(c) == [names |-> c.names, types |-> c.types, templates |-> c.templates]

\* the object a clone() call returns: a new Context, never `self`
CloneAliased(self, fresh) == self
CloneTarget(self, fresh) == fresh

\* TemplateParam(name, is_type, default): dtype/dval hold a type/integer default
TemplateParam(name, is_type) ==
    [name |-> name, is_type |-> is_type, has_default |-> FALSE,
     dtype |-> NoType, dval |-> 0]
PinnedType(name, t) ==
    [name |-> name, is_type |-> TRUE, has_default |-> TRUE, dtype |-> t, dval |-> 0]
PinnedConst(name, n) ==
    [name |-> name, is_type |-> FALSE, has_default |-> TRUE, dtype |-> NoType, dval |-> n]

\* Template.__init__
TemplateInit(params, fields, ctxt) ==
    [params |-> params, fields |-> fields, ctxt |-> ctxt, variants |-> <<>>]

RECURSIVE TypeEq(_, _)

\* equality that looks into Struct, Union and Enum objects instead of
\* comparing their identity
RECURSIVE TypeEqStructural(_, _)
TypeEqStructural(a, b) ==
    CASE a.kind = "Integer" ->
            b.kind = "Integer" /\ a.size = b.size /\ a.signed = b.signed
      [] a.kind = "Float" -> b.kind = "Float" /\ a.size = b.size
      [] a.kind = "Boolean" -> b.kind = "Boolean"
      [] a.kind = "Array" ->
            b.kind = "Array" /\ TypeEqStructural(a.item, b.item) /\ a.count = b.count
      [] a.kind \in {"Struct", "Union", "Enum"} ->
            b.kind = a.kind /\ [a EXCEPT !.id = 0] = [b EXCEPT !.id = 0]

\* __eq__ of the Type classes: identity for Struct, Union and Enum
TypeEq(a, b) ==
    CASE a.kind = "Integer" ->
            b.kind = "Integer" /\ a.size = b.size /\ a.signed = b.signed
      [] a.kind = "Float" -> b.kind = "Float" /\ a.size = b.size
      [] a.kind = "Boolean" -> b.kind = "Boolean"
      [] a.kind = "Array" ->
            b.kind = "Array" /\ TypeEq(a.item, b.item) /\ a.count = b.count
      [] a.kind \in {"Struct", "Union", "Enum"} -> b.kind = a.kind /\ a.id = b.id

----------------------------------------------------------------------------
(* Syntax tree nodes *)

TypeName(n) == [data |-> "type_name", name |-> n]
Number(n) == [data |-> "number", val |-> n]
TypeGeneric(n, args) == [data |-> "type_generic", name |-> n, args |-> args]
Decl(n, arrays) == [name |-> n, arrays |-> arrays]
Fields(t, decls) == [data |-> "fields", type |-> t, decls |-> decls]
Method == [data |-> "method"]
Constructor == [data |-> "constructor"]
AnonymousUnion(variants) == [data |-> "anonymous_union", variants |-> variants]
UnionVariant(t, n) == [type |-> t, name |-> n]
ParamType(n) == [data |-> "template_param_type", name |-> n]
ParamConst(n) == [data |-> "template_param_const", name |-> n]

----------------------------------------------------------------------------
(* Calculate: expressions.  cal is the Context of the evaluating Calculate *)

can_be_type(node) == node.data \in {"ident", "type_name", "type_generic"}
can_be_const_expr(node) ==
    node.data \in {"ident", "type_name", "number", "sizeof", "addition", "subtraction"}

\* Calculate.type_name: self.types[name]
type_name(cal, name) ==
    IF DictHas(cal.types, name) THEN [k |-> "ok", typ |-> DictGet(cal.types, name)]
    ELSE Err

\* Calculate.ident: self.names[name]
ident(cal, name) ==
    IF DictHas(cal.names, name) THEN [k |-> "ok", val |-> DictGet(cal.names, name)]
    ELSE Err

\* Calculate.as_type for a bare name
as_type(cal, node) == type_name(cal, node.name)

\* Calculate.as_const_expr for a bare name or a number
as_const_expr(cal, node) ==
    IF node.data = "number" THEN [k |-> "ok", val |-> node.val]
    ELSE ident(cal, node.name)

\* Calculate.decl: the declared type wrapped in one Array per suffix
RECURSIVE WrapArrays(_, _, _)
WrapArrays(base, arrays, k) ==
    IF k = 0 THEN base ELSE ArrayInit(WrapArrays(base, arrays, k - 1), arrays[k])

\* Calculate.visit of a type that is a name or an anonymous union; a Union is
\* never bound to a name and carries identity 0
RECURSIVE visit_type(_, _)
visit_type(cal, node) ==
    IF node.data = "type_name" THEN type_name(cal, node.name)
    ELSE LET vals == [i \in 1..Len(node.variants) |->
                         visit_type(cal, node.variants[i].type)]
         IN  IF \E i \in 1..Len(vals) : vals[i].k = "error" THEN Err
             ELSE [k |-> "ok",
                   typ |-> UnionInit(0, DictFrom([i \in 1..Len(vals) |->
                                         <<node.variants[i].name, vals[i].typ>>]))]

\* Calculate.fields: [(name, type)] for the declarators of one field group
fields(cal, item) ==
    LET base == visit_type(cal, item.type)
    IN  IF base.k = "error" THEN Err
        ELSE [k |-> "ok",
              list |-> [i \in 1..Len(item.decls) |->
                          <<item.decls[i].name,
                            WrapArrays(base.typ, item.decls[i].arrays,
                                       Len(item.decls[i].arrays))>>]]

\* Calculate.struct, lines 486-496: the dict `fields` after the first k items
RECURSIVE StructFields(_, _, _)
StructFields(cal, items, k) ==
    IF k = 0 THEN [k |-> "ok", dict |-> <<>>]
    ELSE LET before == StructFields(cal, items, k - 1)
         IN  IF before.k = "error" THEN Err
             ELSE IF items[k].data = "fields"
             THEN LET fs == fields(cal, items[k])
                  IN  IF fs.k = "error" THEN Err
                      ELSE [k |-> "ok",
                            dict |-> DictFrom(before.dict \o fs.list)]
             ELSE before

----------------------------------------------------------------------------
(* Template.resolve *)

RECURSIVE BindArgs(_, _, _, _, _)

\* the loop of lines 378-394 without the comparisons against param.default
RECURSIVE BindArgsUnpinned(_, _, _, _, _)
BindArgsUnpinned(params, args, cal, i, rctx) ==
    IF i > Len(args) THEN [k |-> "ok", ctxt |-> rctx]
    ELSE LET param == params[i][2]
             arg == args[i]
         IN  IF param.is_type
             THEN IF can_be_type(arg)
                  THEN LET t == as_type(cal, arg)
                       IN  IF t.k = "error" THEN Err
                           ELSE BindArgsUnpinned(params, args, cal, i + 1,
                                   [rctx EXCEPT !.types = DictSet(@, param.name, t.typ)])
                  ELSE None
             ELSE IF can_be_const_expr(arg)
                  THEN LET n == as_const_expr(cal, arg)
                       IN  IF n.k = "error" THEN Err
                           ELSE BindArgsUnpinned(params, args, cal, i + 1,
                                   [rctx EXCEPT !.names = DictSet(@, param.name, n.val)])
                  ELSE None

\* lines 378-394: the loop over zip(args, params) from position i on, with
\* resolve_ctxt as filled so far
BindArgs(params, args, cal, i, rctx) ==
    IF i > Len(args) THEN [k |-> "ok", ctxt |-> rctx]
    ELSE LET param == params[i][2]
             arg == args[i]
         IN  IF param.is_type
             THEN IF can_be_type(arg)
                  THEN LET t == as_type(cal, arg)
                       IN  IF t.k = "error" THEN Err
                           ELSE IF param.has_default /\ ~TypeEq(param.dtype, t.typ)
                           THEN None
                           ELSE BindArgs(params, args, cal, i + 1,
                                   [rctx EXCEPT !.types = DictSet(@, param.name, t.typ)])
                  ELSE None
             ELSE IF can_be_const_expr(arg)
                  THEN LET n == as_const_expr(cal, arg)
                       IN  IF n.k = "error" THEN Err
                           ELSE IF param.has_default /\ param.dval # n.val
                           THEN None
                           ELSE BindArgs(params, args, cal, i + 1,
                                   [rctx EXCEPT !.names = DictSet(@, param.name, n.val)])
                  ELSE None

\* lines 375-404: this template's own parameters against args
ResolveOwn(tid, args, cal) ==
    LET self == tmpls[tid]
    IN  IF Len(args) # Len(self.params) THEN None
        ELSE LET b == BindArgs(self.params, args, cal, 1, ContextClone(ctxs[self.ctxt]))
             IN  IF b.k = "ok"
                 THEN [k |-> "renderer", tmpl |-> tid, ctxt |-> b.ctxt,
                       target |-> CloneTarget(self.ctxt, ScratchCtx)]
                 ELSE b

RECURSIVE Resolve(_, _, _)

\* lines 371-373 run over the variants in registration order
RECURSIVE ResolveOldestFirst(_, _, _, _)
ResolveOldestFirst(tid, args, cal, j) ==
    LET vs == tmpls[tid].variants
    IN  IF j = 0 THEN ResolveOwn(tid, args, cal)
        ELSE LET res == Resolve(vs[Len(vs) - j + 1], args, cal)
             IN  IF res # None THEN res ELSE ResolveOldestFirst(tid, args, cal, j - 1)

\* lines 371-373: variants j, j-1, ..., 1 are tried, then the template itself
RECURSIVE ResolveVariants(_, _, _, _)
ResolveVariants(tid, args, cal, j) ==
    IF j = 0 THEN ResolveOwn(tid, args, cal)
    ELSE LET res == Resolve(tmpls[tid].variants[j], args, cal)
         IN  IF res # None THEN res ELSE ResolveVariants(tid, args, cal, j - 1)

\* Template.resolve
Resolve(tid, args, cal) == ResolveVariants(tid, args, cal, Len(tmpls[tid].variants))

\* the renderer, lines 396-402.  Calculate has no method for a node of kind
\* "field" and unpacks each visit into (f_name, field), so a non-empty
\* self.fields makes it raise
Render(renderer, id) ==
    IF tmpls[renderer.tmpl].fields = <<>>
    THEN [k |-> "ok", typ |-> StructInit(id, <<>>)]
    ELSE Err

----------------------------------------------------------------------------
(* The state before any parse_file call *)

InitCalcVars ==
    /\ ctxs = [i \in CtxIds |-> IF i = 0 THEN BASE_CTXT ELSE NoCtx]
    /\ tmpls = [i \in ObjIds |-> NoTmpl]
    /\ cur = 0
    /\ status = "idle"
    /\ tree = <<>>
    /\ nvisit = 0
    /\ nobj = 0
    /\ resolved = NoResolution
    /\ compared = <<>>

----------------------------------------------------------------------------
(* Preprocessor *)

FileNames == {"main.h", "util.h"}
EntryFile == "main.h"

\* the lines a header is made of: a pass-through line, `#pragma once`,
\* `#include "<file>"`, `#include <cmath>` (one of STD_HEADERS), and any other
\* line starting with "#"
TextLine == [kind |-> "text", file |-> ""]
PragmaLine == [kind |-> "pragma", file |-> ""]
IncludeLine(f) == [kind |-> "include", file |-> f]
StdIncludeLine == [kind |-> "std", file |-> ""]
MalformedLine == [kind |-> "malformed", file |-> ""]
CommonLines == {TextLine, PragmaLine} \cup {IncludeLine(f) : f \in FileNames}
LineKinds == CommonLines \cup {StdIncludeLine, MalformedLine}
\* the entry file is made of up to MaxLines lines of any kind, the other
\* headers of one line less and of the common kinds
Texts(f) == UNION {[1..n -> IF f = EntryFile THEN LineKinds ELSE CommonLines] :
                       n \in 0..(IF f = EntryFile THEN MaxLines ELSE MaxLines - 1)}

\* output lines: pass-through line i of a file, or the "\n" a directive leaves
Emitted(f, i) == [file |-> f, line |-> i]
Blank == [file |-> "", line |-> 0]

\* Preprocessor.__init__
InitPreVars ==
    /\ files = [f \in FileNames |-> <<>>]
    /\ included_files = {}
    /\ pragma_once = {}
    /\ stack = <<>>
    /\ returned = <<>>
    /\ output = <<>>
    /\ pstatus = "idle"

----------------------------------------------------------------------------
(* Types and buffers the type-level operations are exercised on *)

FieldNames == <<"a", "b", "c", "d">>
VariantNames == <<"Red", "Green", "Blue", "Alpha", "Beta">>

\* enum class Color { Red, Green, Blue };
Color ==
    EnumInit(0, EnumDict([i \in 1..3 |-> [name |-> VariantNames[i], value |-> NoValue]], 3))
\* struct Empty {};
EmptyStruct == StructInit(0, <<>>)
\* char x[3];
Char3 == ArrayInit(Integer(1, TRUE), 3)
\* union { char a[5]; int32_t b; }
CharOrInt ==
    UnionInit(0, << <<"a", ArrayInit(Integer(1, TRUE), 5)>>, <<"b", Integer(4, TRUE)>> >>)

\* member, item and variant types: built-ins, the other widths and alignments
\* Integer accepts, and composites built by the constructors above
ElemTypes ==
    { Boolean, Integer(4, TRUE), Integer(8, FALSE), Float(4),
      Integer(2, TRUE), IntegerInit(1, FALSE, 3),
      Color, EmptyStruct, Char3, CharOrInt }

\* the dict {FieldNames[1]: ts[1], ...}
Named(ts) == [i \in 1..Len(ts) |-> <<FieldNames[i], ts[i]>>]

TypeLists(lo) == UNION {[1..n -> ElemTypes] : n \in lo..MaxMembers}

EnumDecls ==
    UNION {[1..n -> {[name |-> nm, value |-> v] :
                        nm \in {VariantNames[i] : i \in 1..(MaxVariants + 1)},
                        v \in {NoValue} \cup {Explicit(x) : x \in 0..MaxEnumVal}}]
           : n \in 0..MaxVariants}

FirstBytes == {0, 1, 5, 255}
RestBytes == {0, 255}

\* a buffer whose 4-byte words start with b, b+1, ... and are filled with r
Buffer(len, b, r) ==
    [i \in 1..len |-> IF (i - 1) % 4 = 0 THEN (b + ((i - 1) \div 4)) % 256 ELSE r]

\* a buffer whose i-th byte is its own offset
Stamped(len) == [i \in 1..len |-> (i - 1) % 256]

BufferLens(size) == {l \in (size - MaxLenDelta)..(size + MaxLenDelta) : l >= 0}

Buffers(size) ==
    {Buffer(len, b, r) : len \in BufferLens(size), b \in FirstBytes, r \in RestBytes}
        \cup {Stamped(len) : len \in BufferLens(size)}

----------------------------------------------------------------------------
(* Type-level operations.  A behaviour follows one Type object: it is         *)
(* constructed once and then decodes a buffer.                             *)

InitTypeVars ==
    /\ typ = NoType
    /\ data = <<>>
    /\ parsed = NoResult
    /\ parts = <<>>

\* the _get_parts call of Struct.parse (line 207) and Array.parse (line 231)
PartsOf(t, bytes) ==
    CASE t.kind = "Struct" -> GetParts(bytes, DictValues(t.members))
      [] t.kind = "Array" -> GetParts(bytes, Repeat(t.item, t.count))
      [] OTHER -> <<>>

InitTypes == InitTypeVars /\ InitCalcVars /\ InitPreVars

\* Struct(members)
NewStruct ==
    /\ typ = NoType
    /\ UNCHANGED <<calcVars, preVars>>
    /\ \E ts \in TypeLists(0) : typ' = StructInit(0, Named(ts))
    /\ data' = <<>>
    /\ parsed' = NoResult
    /\ parts' = <<>>

\* Array(item, count); count is whatever the const_expr evaluates to
NewArray ==
    /\ typ = NoType
    /\ UNCHANGED <<calcVars, preVars>>
    /\ \E item \in ElemTypes, count \in (0 - 1)..MaxCount : typ' = ArrayInit(item, count)
    /\ data' = <<>>
    /\ parsed' = NoResult
    /\ parts' = <<>>

\* Union(variants)
NewUnion ==
    /\ typ = NoType
    /\ UNCHANGED <<calcVars, preVars>>
    /\ \E ts \in TypeLists(1) : typ' = UnionInit(0, Named(ts))
    /\ data' = <<>>
    /\ parsed' = NoResult
    /\ parts' = <<>>

\* Enum(enum) as Calculate.enum builds it
NewEnum ==
    /\ typ = NoType
    /\ UNCHANGED <<calcVars, preVars>>
    /\ \E decl \in EnumDecls : typ' = EnumInit(0, EnumDict(decl, Len(decl)))
    /\ data' = <<>>
    /\ parsed' = NoResult
    /\ parts' = <<>>

\* typ.parse(data); parse keeps no state, so a behaviour decodes one buffer
Parse ==
    /\ typ # NoType
    /\ parsed = NoResult
    /\ UNCHANGED <<calcVars, preVars>>
    /\ \E buf \in Buffers(typ.size) :
          /\ data' = buf
          /\ parsed' = ParseType(typ, buf)
          /\ parts' = PartsOf(typ, buf)
    /\ UNCHANGED typ

NextTypes == NewStruct \/ NewArray \/ NewUnion \/ NewEnum \/ Parse

SpecTypes == InitTypes /\ [][NextTypes]_vars

----------------------------------------------------------------------------
(* Declarations the evaluator is run on *)

Int32Name == TypeName("int32_t")

\* struct A { ... };
StructNodes ==
    {[data |-> "struct", name |-> "A", items |-> items] :
        items \in { << Fields(Int32Name, <<Decl("x", <<>>)>>) >>,
                    << Fields(TypeName("char"), <<Decl("c", <<>>)>>),
                       Fields(Int32Name, <<Decl("v", <<>>), Decl("w", <<2>>)>>),
                       Method >> }}

\* enum class E { Red, Green = 2 };
EnumNodes ==
    {[data |-> "enum", name |-> "E",
      variants |-> << [name |-> "Red", value |-> NoValue],
                      [name |-> "Green", value |-> Explicit(2)] >>]}

ArgNames == {"int32_t", "char", "A"}

\* typedef <type> B;
TypedefNodes ==
    {[data |-> "typedef", type |-> t, name |-> "B"] :
        t \in {TypeName(n) : n \in {"int32_t", "A"}}
              \cup {TypeGeneric("Box", <<TypeName(n)>>) : n \in ArgNames}
              \cup {TypeGeneric("Box", <<Number(3)>>),
                    TypeGeneric("Box", <<Int32Name, Int32Name>>)}}

\* template <typename T> struct Box { ... };
TemplateNodes ==
    {[data |-> "templated_struct", template |-> <<ParamType("T")>>,
      name |-> "Box", items |-> items] :
        items \in { << Fields(TypeName("T"), <<Decl("value", <<>>)>>) >>,
                    << Fields(TypeName("T"), <<Decl("value", <<>>)>>),
                       Fields(Int32Name, <<Decl("n", <<>>)>>),
                       Constructor >> }}

\* template <...> struct Box<arg> { ... };
SpecializationNodes ==
    {[data |-> "templated_substituted_struct", template |-> own,
      name |-> "Box", substitution |-> <<TypeName(arg)>>,
      items |-> << Fields(Int32Name, <<Decl("special", <<>>)>>) >>] :
        own \in {<<>>, <<ParamType("U")>>}, arg \in ArgNames \cup {"U"}}

----------------------------------------------------------------------------
(* parse_file and the Calculate visitors *)

InitCalc == InitTypeVars /\ InitCalcVars /\ InitPreVars

\* the first Context identity not in use
FreshCtx == CHOOSE i \in 1..MaxCtx : ctxs[i] = NoCtx /\ \A j \in 1..(i - 1) : ctxs[j] # NoCtx

\* parse_file, lines 745-747: ctxt = BASE_CTXT.clone(); calc = Calculate(ctxt)
ParseFile ==
    /\ \E i \in 1..MaxCtx : ctxs[i] = NoCtx
    /\ LET target == CloneTarget(0, FreshCtx)
       IN  /\ ctxs' = [ctxs EXCEPT ![target] = ContextClone(ctxs[0])]
           /\ cur' = target
    /\ status' = "parsing"
    /\ tree' = <<>>
    /\ resolved' = NoResolution
    /\ UNCHANGED <<tmpls, nvisit, nobj, compared>>
    /\ UNCHANGED <<typeVars, preVars>>

\* a behaviour that has compared two objects visits nothing further
CanVisit == status = "parsing" /\ nvisit < MaxDecls /\ compared = <<>>

\* bookkeeping common to every visit of a top-level node
Visited(node) ==
    /\ tree' = Append(tree, node)
    /\ nvisit' = nvisit + 1
    /\ UNCHANGED <<typeVars, preVars, compared>>

\* the visit raises: parse_file is left by the exception
Raise(node) ==
    /\ Visited(node)
    /\ status' = "failed"
    /\ UNCHANGED <<ctxs, tmpls, cur, nobj>>

\* Calculate.struct
VisitStruct(node) ==
    /\ CanVisit
    /\ resolved' = NoResolution
    /\ LET fs == StructFields(ctxs[cur], node.items, Len(node.items))
       IN  IF fs.k = "error" THEN Raise(node)
           ELSE /\ Visited(node)
                /\ ctxs' = [ctxs EXCEPT ![cur].types =
                                DictSet(@, node.name, StructInit(nobj + 1, fs.dict))]
                /\ nobj' = nobj + 1
                /\ UNCHANGED <<tmpls, cur, status>>

\* Calculate.enum
VisitEnum(node) ==
    /\ CanVisit
    /\ resolved' = NoResolution
    /\ Visited(node)
    /\ ctxs' = [ctxs EXCEPT ![cur].types =
                    DictSet(@, node.name,
                            EnumInit(nobj + 1, EnumDict(node.variants, Len(node.variants))))]
    /\ nobj' = nobj + 1
    /\ UNCHANGED <<tmpls, cur, status>>

\* Calculate.type_generic, lines 638-642: what resolve returned
type_generic(cal, node) ==
    IF DictHas(cal.templates, node.name)
    THEN Resolve(DictGet(cal.templates, node.name), node.args, cal)
    ELSE Err

\* the Contexts once resolve has written its bindings into the Context that
\* clone() gave it and the renderer has been dropped
AfterResolve(res) ==
    [(IF res.k = "renderer" THEN [ctxs EXCEPT ![res.target] = res.ctxt] ELSE ctxs)
        EXCEPT ![ScratchCtx] = NoCtx]

\* Calculate.typedef: self.types[name] = self.visit(ty)
VisitTypedef(node) ==
    /\ CanVisit
    /\ IF node.type.data = "type_name"
       THEN /\ resolved' = NoResolution
            /\ LET t == type_name(ctxs[cur], node.type.name)
               IN  IF t.k = "error" THEN Raise(node)
                   ELSE /\ Visited(node)
                        /\ ctxs' = [ctxs EXCEPT ![cur].types = DictSet(@, node.name, t.typ)]
                        /\ UNCHANGED <<tmpls, cur, status, nobj>>
       ELSE LET res == type_generic(ctxs[cur], node.type)
                made == IF res.k = "renderer" THEN Render(res, nobj + 1) ELSE Err
            IN  /\ resolved' = res
                /\ Visited(node)
                /\ UNCHANGED <<tmpls, cur>>
                /\ IF made.k = "error"
                   THEN /\ status' = "failed"
                        /\ ctxs' = AfterResolve(res)
                        /\ UNCHANGED nobj
                   ELSE /\ ctxs' = [AfterResolve(res) EXCEPT ![cur].types =
                                        DictSet(@, node.name, made.typ)]
                        /\ nobj' = nobj + 1
                        /\ UNCHANGED status

\* lines 509-512, 527-530: the dict of the header's TemplateParams
TemplateParams(template) ==
    DictFrom([i \in 1..Len(template) |->
                <<template[i].name,
                  TemplateParam(template[i].name, template[i].data = "template_param_type")>>])

\* lines 514-517, 554-557: the items kept as the template's fields
IsFieldItem(item) == item.data = "field"
TemplateFields(items) == SelectSeq(items, IsFieldItem)

\* Calculate.templated_struct
VisitTemplatedStruct(node) ==
    /\ CanVisit
    /\ resolved' = NoResolution
    /\ Visited(node)
    /\ tmpls' = [tmpls EXCEPT ![nobj + 1] =
                    TemplateInit(TemplateParams(node.template),
                                 TemplateFields(node.items), cur)]
    /\ ctxs' = [ctxs EXCEPT ![cur].templates = DictSet(@, node.name, nobj + 1)]
    /\ nobj' = nobj + 1
    /\ UNCHANGED <<cur, status>>

RECURSIVE ActualParams(_, _, _, _, _)

\* lines 538-552 alone: every argument is evaluated and pinned, none is taken
\* as a parameter of the specialization
RECURSIVE ActualParamsAllPinned(_, _, _, _, _)
ActualParamsAllPinned(cal, base_params, substitution, template_params, k) ==
    IF k = 0 THEN [k |-> "ok", dict |-> <<>>]
    ELSE LET before == ActualParamsAllPinned(cal, base_params, substitution,
                                             template_params, k - 1)
             actual_param == base_params[k][2]
             item == substitution[k]
         IN  IF before.k = "error" THEN Err
             ELSE IF actual_param.is_type
             THEN IF can_be_type(item)
                  THEN LET t == as_type(cal, item)
                       IN  IF t.k = "error" THEN Err
                           ELSE [k |-> "ok",
                                 dict |-> DictSet(before.dict, actual_param.name,
                                                  PinnedType(actual_param.name, t.typ))]
                  ELSE Err
             ELSE IF can_be_const_expr(item)
                  THEN LET n == as_const_expr(cal, item)
                       IN  IF n.k = "error" THEN Err
                           ELSE [k |-> "ok",
                                 dict |-> DictSet(before.dict, actual_param.name,
                                                  PinnedConst(actual_param.name, n.val))]
                  ELSE Err

\* lines 532-552: actual_template_params after the first k arguments
ActualParams(cal, base_params, substitution, template_params, k) ==
    IF k = 0 THEN [k |-> "ok", dict |-> <<>>]
    ELSE LET before == ActualParams(cal, base_params, substitution, template_params, k - 1)
             actual_param == base_params[k][2]
             item == substitution[k]
         IN  IF before.k = "error" THEN Err
             ELSE IF item.data \in {"type_name", "ident"}
                     /\ DictHas(template_params, item.name)
             THEN [k |-> "ok",
                   dict |-> DictSet(before.dict, actual_param.name,
                                    DictGet(template_params, item.name))]
             ELSE IF actual_param.is_type
             THEN IF can_be_type(item)
                  THEN LET t == as_type(cal, item)
                       IN  IF t.k = "error" THEN Err
                           ELSE [k |-> "ok",
                                 dict |-> DictSet(before.dict, actual_param.name,
                                                  PinnedType(actual_param.name, t.typ))]
                  ELSE Err
             ELSE IF can_be_const_expr(item)
                  THEN LET n == as_const_expr(cal, item)
                       IN  IF n.k = "error" THEN Err
                           ELSE [k |-> "ok",
                                 dict |-> DictSet(before.dict, actual_param.name,
                                                  PinnedConst(actual_param.name, n.val))]
                  ELSE Err

\* Calculate.templated_substituted_struct
VisitSpecialization(node) ==
    /\ CanVisit
    /\ resolved' = NoResolution
    /\ IF ~DictHas(ctxs[cur].templates, node.name) THEN Raise(node)
       ELSE LET base == DictGet(ctxs[cur].templates, node.name)
                variant_of == tmpls[base]
            IN  IF Len(variant_of.params) # Len(node.substitution) THEN Raise(node)
                ELSE LET actual == ActualParams(ctxs[cur], variant_of.params,
                                                node.substitution,
                                                TemplateParams(node.template),
                                                Len(node.substitution))
                     IN  IF actual.k = "error" THEN Raise(node)
                         ELSE /\ Visited(node)
                              /\ tmpls' = [tmpls EXCEPT
                                    ![nobj + 1] = TemplateInit(actual.dict,
                                                     TemplateFields(node.items), cur),
                                    ![base].variants = Append(@, nobj + 1)]
                              /\ nobj' = nobj + 1
                              /\ UNCHANGED <<ctxs, cur, status>>

NextCalc ==
    \/ ParseFile
    \/ \E node \in StructNodes : VisitStruct(node)
    \/ \E node \in EnumNodes : VisitEnum(node)
    \/ \E node \in TypedefNodes : VisitTypedef(node)
    \/ \E node \in TemplateNodes : VisitTemplatedStruct(node)
    \/ \E node \in SpecializationNodes : VisitSpecialization(node)

SpecCalc == InitCalc /\ [][NextCalc]_vars

----------------------------------------------------------------------------
(* The evaluator on a template with a type and a constant parameter *)

\* template <typename T, int N> struct Arr { T data[N]; };
ArrTemplateNodes ==
    {[data |-> "templated_struct", template |-> <<ParamType("T"), ParamConst("N")>>,
      name |-> "Arr", items |-> << Fields(TypeName("T"), <<Decl("data", <<1>>)>>) >>]}

\* the parameter lists a specialization of Arr declares: template <> and
\* template <typename U, int M>
ArrOwnParams == {<<>>, <<ParamType("U"), ParamConst("M")>>}

\* template <...> struct Arr<t, n> { ... }; and, with one argument too few,
\* template <...> struct Arr<int32_t> { ... };
ArrSpecializationNodes ==
    {[data |-> "templated_substituted_struct", template |-> own,
      name |-> "Arr", substitution |-> sub,
      items |-> << Fields(Int32Name, <<Decl("special", <<>>)>>) >>] :
        own \in ArrOwnParams,
        sub \in {<<TypeName(t), n>> :
                    t \in {"int32_t", "char", "U"},
                    n \in {Number(3), Number(4), TypeName("M")}}
                \cup {<<Int32Name>>}}

\* typedef Arr<...> B;
ArrTypedefNodes ==
    {[data |-> "typedef", type |-> TypeGeneric("Arr", args), name |-> "B"] :
        args \in {<<TypeName(t), Number(n)>> : t \in {"int32_t", "char"}, n \in {3, 4}}
                 \cup {<<Int32Name>>, <<Int32Name, TypeName("char")>>,
                       <<Number(3), Number(3)>>}}

NextTmpl ==
    \/ ParseFile
    \/ \E node \in ArrTypedefNodes : VisitTypedef(node)
    \/ \E node \in ArrTemplateNodes : VisitTemplatedStruct(node)
    \/ \E node \in ArrSpecializationNodes : VisitSpecialization(node)

SpecTmpl == InitCalc /\ [][NextTmpl]_vars

----------------------------------------------------------------------------
(* The evaluator on specializations pinned to declared types.  A behaviour   *)
(* starts where parse_file has visited                                     *)
(*     struct P { int32_t x; }; struct Q { int32_t x; }; typedef P Alias;    *)
(* and nvisit counts the nodes visited after these.                        *)

PreludeNodes ==
    << [data |-> "struct", name |-> "P",
        items |-> << Fields(Int32Name, <<Decl("x", <<>>)>>) >>],
       [data |-> "struct", name |-> "Q",
        items |-> << Fields(Int32Name, <<Decl("x", <<>>)>>) >>],
       [data |-> "typedef", type |-> TypeName("P"), name |-> "Alias"] >>

\* calc.ctxt after the three visits: Calculate.struct twice, Calculate.typedef
PreludeCtxt ==
    LET c0 == ContextClone(BASE_CTXT)
        p == StructInit(1, StructFields(c0, PreludeNodes[1].items, 1).dict)
        c1 == [c0 EXCEPT !.types = DictSet(@, "P", p)]
        q == StructInit(2, StructFields(c1, PreludeNodes[2].items, 1).dict)
        c2 == [c1 EXCEPT !.types = DictSet(@, "Q", q)]
    IN  [c2 EXCEPT !.types = DictSet(@, "Alias", type_name(c2, "P").typ)]

InitIdent ==
    /\ InitTypeVars
    /\ InitPreVars
    /\ ctxs = [i \in CtxIds |-> IF i = 0 THEN BASE_CTXT
                                ELSE IF i = 1 THEN PreludeCtxt ELSE NoCtx]
    /\ tmpls = [i \in ObjIds |-> NoTmpl]
    /\ cur = 1
    /\ status = "parsing"
    /\ tree = PreludeNodes
    /\ nvisit = 0
    /\ nobj = 2
    /\ resolved = NoResolution
    /\ compared = <<>>

\* template <typename T> struct Box { T value; };
IdentTemplateNodes ==
    {[data |-> "templated_struct", template |-> <<ParamType("T")>>,
      name |-> "Box", items |-> << Fields(TypeName("T"), <<Decl("value", <<>>)>>) >>]}

\* template <> struct Box<t> { ... };
IdentSpecializationNodes ==
    {[data |-> "templated_substituted_struct", template |-> <<>>,
      name |-> "Box", substitution |-> <<TypeName(t)>>,
      items |-> << Fields(Int32Name, <<Decl("special", <<>>)>>) >>] :
        t \in {"P", "Q", "Alias", "int32_t", "uint32_t", "float"}}

\* typedef Box<t> R;
IdentTypedefNodes ==
    {[data |-> "typedef", type |-> TypeGeneric("Box", <<TypeName(t)>>), name |-> "R"] :
        t \in {"P", "Q", "Alias", "int32_t", "int", "char", "float"}}

\* the Type objects compared: those bound in the Context, Float(8), arrays of
\* them and arrays of these arrays
BoundTypes == {ctxs[cur].types[i][2] : i \in 1..Len(ctxs[cur].types)} \cup {Float(8)}
ArraysOf(items) == {ArrayInit(t, c) : t \in items, c \in 0..MaxCount}
EqOperands == BoundTypes \cup ArraysOf(BoundTypes) \cup ArraysOf(ArraysOf({Boolean, Float(4)}))

\* a == b for two Type objects; __eq__ reads nothing but its operands, so a
\* behaviour compares once, in place of declaring anything further
Compare ==
    /\ status = "parsing"
    /\ nvisit = 0
    /\ compared = <<>>
    /\ \E a \in EqOperands, b \in EqOperands : compared' = <<a, b, TypeEq(a, b)>>
    /\ UNCHANGED <<ctxs, tmpls, cur, status, tree, nvisit, nobj, resolved>>
    /\ UNCHANGED <<typeVars, preVars>>

NextIdent ==
    \/ Compare
    \/ \E node \in IdentTypedefNodes : VisitTypedef(node)
    \/ \E node \in IdentTemplateNodes : VisitTemplatedStruct(node)
    \/ \E node \in IdentSpecializationNodes : VisitSpecialization(node)

SpecIdent == InitIdent /\ [][NextIdent]_vars

----------------------------------------------------------------------------
(* The evaluator on enum declarations *)

\* enum class E { V1 [= n], V2 [= n], ... };
EnumDeclNodes ==
    {[data |-> "enum", name |-> "E", variants |-> vs] :
        vs \in UNION {{[i \in 1..n |-> [name |-> VariantNames[i], value |-> vals[i]]] :
                         vals \in [1..n -> {NoValue} \cup
                                           {Explicit(x) : x \in 0..MaxEnumVal}]}
                      : n \in 0..MaxVariants}}

\* Calculate.enum, for the first declaration of a behaviour
VisitEnumDecl(node) ==
    /\ nvisit = 0
    /\ VisitEnum(node)

NextEnum ==
    \/ ParseFile
    \/ \E node \in EnumDeclNodes : VisitEnumDecl(node)

SpecEnum == InitCalc /\ [][NextEnum]_vars

----------------------------------------------------------------------------
(* The evaluator on structs with arrays and anonymous unions *)

\* struct A { <char | int32_t> c[n]; };
PlainStructNodes ==
    {[data |-> "struct", name |-> "A",
      items |-> << Fields(TypeName(t), <<Decl("c", arrays)>>) >>] :
        t \in {"char", "int32_t"}, arrays \in {<<>>, <<3>>, <<5>>}}

\* the types of the fields of S: a name, or union { ... } of two names, or a
\* union holding a union
UnionOf(t1, t2) ==
    AnonymousUnion(<<UnionVariant(TypeName(t1), "a"), UnionVariant(TypeName(t2), "b")>>)
LayoutFieldTypes ==
    {TypeName("char"), TypeName("A"),
     UnionOf("A", "int32_t"), UnionOf("char", "int64_t"),
     AnonymousUnion(<<UnionVariant(UnionOf("A", "char"), "u"),
                      UnionVariant(Int32Name, "w")>>)}

\* struct S { <type> x[n]; [<type> y[n];] };
LayoutGroups(name) ==
    {Fields(t, <<Decl(name, arrays)>>) :
        t \in LayoutFieldTypes, arrays \in {<<>>, <<2>>, <<0>>}}
NestedStructNodes ==
    {[data |-> "struct", name |-> "S", items |-> items] :
        items \in {<<g>> : g \in LayoutGroups("x")}
                  \cup {<<g, h>> : g \in LayoutGroups("x"), h \in LayoutGroups("y")}}

\* Calculate.struct, for the first MaxLayoutDecls declarations of a behaviour
VisitStructDecl(node) ==
    /\ nvisit < MaxLayoutDecls
    /\ VisitStruct(node)

NextLayout ==
    \/ ParseFile
    \/ \E node \in PlainStructNodes \cup NestedStructNodes : VisitStructDecl(node)

SpecLayout == InitCalc /\ [][NextLayout]_vars

----------------------------------------------------------------------------
(* Preprocessor.include_file and Preprocessor.preprocess, one line per step *)

InitPre ==
    /\ InitTypeVars
    /\ InitCalcVars
    /\ \E entry \in Texts(EntryFile) :
       \E others \in [FileNames \ {EntryFile} -> Texts("")] :
          files = [f \in FileNames |-> IF f = EntryFile THEN entry ELSE others[f]]
    /\ included_files = {}
    /\ pragma_once = {}
    /\ stack = <<>>
    /\ returned = <<>>
    /\ output = <<>>
    /\ pstatus = "idle"

\* a call of preprocess(file_path, text) about to look at line i
Frame(f) == [file |-> f, i |-> 1, processed |-> <<>>, awaiting |-> FALSE]

Top == stack[Len(stack)]
TopLine == files[Top.file][Top.i]
Running == pstatus = "running" /\ stack # <<>>
AtLine == Running /\ ~Top.awaiting /\ Top.i <= Len(files[Top.file])

\* the innermost call goes on with `processed` and moves to its next line
Continue(processed) ==
    stack' = [stack EXCEPT ![Len(stack)] =
                 [@ EXCEPT !.processed = processed, !.i = @ + 1, !.awaiting = FALSE]]

\* the innermost call returns text to its caller, or out of include_file
ReturnText(text) ==
    /\ stack' = SubSeq(stack, 1, Len(stack) - 1)
    /\ IF Len(stack) = 1
       THEN /\ output' = text
            /\ pstatus' = "done"
            /\ returned' = <<>>
       ELSE /\ returned' = text
            /\ UNCHANGED <<output, pstatus>>

\* parse_file, line 734: preprocessor.include_file(file)
IncludeEntry ==
    /\ pstatus = "idle"
    /\ included_files' = included_files \cup {EntryFile}
    /\ stack' = <<Frame(EntryFile)>>
    /\ pstatus' = "running"
    /\ UNCHANGED <<files, pragma_once, returned, output>>
    /\ UNCHANGED <<typeVars, calcVars>>

\* lines 702-706: a line that does not start with "#"
PassThrough ==
    /\ AtLine
    /\ TopLine.kind = "text"
    /\ Continue(Append(Top.processed, Emitted(Top.file, Top.i)))
    /\ UNCHANGED <<files, included_files, pragma_once, returned, output, pstatus>>
    /\ UNCHANGED <<typeVars, calcVars>>

\* #pragma once without the test of line 709
PragmaOnceUnchecked ==
    /\ AtLine
    /\ TopLine.kind = "pragma"
    /\ pragma_once' = pragma_once \cup {Top.file}
    /\ Continue(Append(Top.processed, Blank))
    /\ UNCHANGED <<returned, output, pstatus>>
    /\ UNCHANGED <<files, included_files>>
    /\ UNCHANGED <<typeVars, calcVars>>

\* lines 708-712 and 728: #pragma once
PragmaOnce ==
    /\ AtLine
    /\ TopLine.kind = "pragma"
    /\ IF Top.file \in pragma_once
       THEN /\ ReturnText(<<>>)
            /\ UNCHANGED pragma_once
       ELSE /\ pragma_once' = pragma_once \cup {Top.file}
            /\ Continue(Append(Top.processed, Blank))
            /\ UNCHANGED <<returned, output, pstatus>>
    /\ UNCHANGED <<files, included_files>>
    /\ UNCHANGED <<typeVars, calcVars>>

\* lines 713-721 with include_file, lines 693-697: #include "file" enters the
\* included file
Include ==
    /\ AtLine
    /\ TopLine.kind = "include"
    /\ Len(stack) < MaxDepth
    /\ included_files' = included_files \cup {TopLine.file}
    /\ stack' = Append([stack EXCEPT ![Len(stack)] = [@ EXCEPT !.awaiting = TRUE]],
                       Frame(TopLine.file))
    /\ UNCHANGED <<files, pragma_once, returned, output, pstatus>>
    /\ UNCHANGED <<typeVars, calcVars>>

\* lines 722-723 and 728: #include of a standard header preprocesses its empty
\* text under the header's name, which yields ""
StdInclude ==
    /\ AtLine
    /\ TopLine.kind = "std"
    /\ Continue(Append(Top.processed \o <<>>, Blank))
    /\ UNCHANGED <<files, included_files, pragma_once, returned, output, pstatus>>
    /\ UNCHANGED <<typeVars, calcVars>>

\* lines 715, 725 and 727: raise Exception("Malformed line ...")
Malformed ==
    /\ AtLine
    /\ TopLine.kind = "malformed"
    /\ pstatus' = "failed"
    /\ stack' = <<>>
    /\ UNCHANGED <<files, included_files, pragma_once, returned, output>>
    /\ UNCHANGED <<typeVars, calcVars>>

\* the interpreter's recursion limit: the nested call raises RecursionError
TooDeep ==
    /\ AtLine
    /\ TopLine.kind = "include"
    /\ Len(stack) >= MaxDepth
    /\ pstatus' = "overflow"
    /\ stack' = <<>>
    /\ UNCHANGED <<files, included_files, pragma_once, returned, output>>
    /\ UNCHANGED <<typeVars, calcVars>>

\* lines 721 and 728: processed += self.include_file(include_path), then "\n"
Splice ==
    /\ Running
    /\ Top.awaiting
    /\ Continue(Append(Top.processed \o returned, Blank))
    /\ returned' = <<>>
    /\ UNCHANGED <<files, included_files, pragma_once, output, pstatus>>
    /\ UNCHANGED <<typeVars, calcVars>>

\* line 729: return processed
EndOfFile ==
    /\ Running
    /\ ~Top.awaiting
    /\ Top.i > Len(files[Top.file])
    /\ ReturnText(Top.processed)
    /\ UNCHANGED <<files, included_files, pragma_once>>
    /\ UNCHANGED <<typeVars, calcVars>>

NextPre ==
    \/ IncludeEntry \/ PassThrough \/ PragmaOnce \/ Include \/ StdInclude
    \/ Malformed \/ TooDeep \/ Splice \/ EndOfFile

SpecPre == InitPre /\ [][NextPre]_vars

\* the interpreter keeps executing a call that has a next step
SpecPreFair == SpecPre /\ WF_vars(NextPre)

----------------------------------------------------------------------------
(* Properties of the Type classes, checked under SpecTypes *)

\* the smallest offset >= x that is a multiple of a
LeastMultipleFrom(x, a) == CHOOSE o \in x..(x + a - 1) : o % a = 0

\* where member k starts and ends when each member is put at the smallest
\* suitably aligned offset after its predecessor
RECURSIVE PlacedEnd(_, _)
PlacedStart(types, k) == LeastMultipleFrom(PlacedEnd(types, k - 1), types[k].align)
PlacedEnd(types, k) ==
    IF k = 0 THEN 0 ELSE PlacedStart(types, k) + types[k].size

RECURSIVE SumSizes(_, _)
SumSizes(types, k) == IF k = 0 THEN 0 ELSE SumSizes(types, k - 1) + types[k].size

\* padding inserted in front of members 1..k
RECURSIVE SumPadding(_, _)
SumPadding(types, k) ==
    IF k = 0 THEN 0
    ELSE SumPadding(types, k - 1) + (PlacedStart(types, k) - PlacedEnd(types, k - 1))

MaxAlignOf(types) == SetMax({1} \cup {types[i].align : i \in 1..Len(types)})

\* C1: a Struct's size is the smallest multiple of the maximum member
\* alignment that is >= the end of the last member, the members being placed
\* left to right at the smallest aligned offsets; size is the sum of member
\* sizes and padding, align is the maximum member alignment (1 for no
\* members), and size % align = 0.
C1_StructLayout ==
    typ.kind = "Struct" =>
        LET ts == DictValues(typ.members)
            n == Len(ts)
            trailing == typ.size - PlacedEnd(ts, n)
        IN  /\ typ.align = MaxAlignOf(ts)
            /\ typ.size = LeastMultipleFrom(PlacedEnd(ts, n), MaxAlignOf(ts))
            /\ trailing >= 0
            /\ typ.size = SumSizes(ts, n) + SumPadding(ts, n) + trailing
            /\ typ.size % typ.align = 0

\* a two-member struct with padding both before its second member and at its end
C1_Witness ==
    /\ typ.kind = "Struct"
    /\ Len(typ.members) = 2
    /\ SumPadding(DictValues(typ.members), 2) > 0
    /\ typ.size > PlacedEnd(DictValues(typ.members), 2)

\* C4 (as claimed): a decode whose buffer length differs from the type's size
\* fails.
C4_LengthMismatchFails ==
    (parsed # NoResult /\ Len(data) # typ.size) => parsed = Fail

\* C5 (as claimed): an Array whose element size E is a multiple of its element
\* alignment A has size E * N and alignment A, for every count N >= 0.
C5_ArrayAnyCount ==
    (typ.kind = "Array" /\ typ.count >= 0 /\ typ.item.size % typ.item.align = 0) =>
        /\ typ.size = typ.item.size * typ.count
        /\ typ.align = typ.item.align

\* C5 (amended): for N >= 1 an Array has alignment A and size E * N when
\* E % A = 0, and otherwise N times E rounded up to a multiple of A; for
\* N <= 0 it is laid out as the empty sequence, size 0 and alignment 1.
C5_ArrayLayout ==
    typ.kind = "Array" =>
        LET E == typ.item.size
            A == typ.item.align
            N == typ.count
        IN  /\ (N >= 1 /\ E % A = 0) => (typ.size = E * N /\ typ.align = A)
            /\ (N >= 1 /\ E % A # 0) =>
                    (typ.size = LeastMultipleFrom(E, A) * N /\ typ.align = A)
            /\ N <= 0 => (typ.size = 0 /\ typ.align = 1)

\* an array of two elements that needs padding between them
C5_Witness ==
    /\ typ.kind = "Array"
    /\ typ.count = 2
    /\ typ.item.size % typ.item.align # 0
    /\ typ.size > 2 * typ.item.size

\* the four bytes that store the non-negative integer n
Stored32(n) ==
    <<n % 256, (n \div 256) % 256, (n \div 65536) % 256, n \div 16777216>>

\* C6: decoding four bytes with an Enum gives the variant name registered for
\* the stored integer when it is in the variant table, and fails otherwise.
C6_EnumDecode ==
    (typ.kind = "Enum" /\ parsed # NoResult /\ Len(data) = 4) =>
        IF \E i \in 1..Len(typ.variants) : Stored32(typ.variants[i][1]) = data
        THEN \E i \in 1..Len(typ.variants) :
                /\ Stored32(typ.variants[i][1]) = data
                /\ parsed = [k |-> "str", v |-> typ.variants[i][2]]
        ELSE parsed = Fail

\* enum class Color { Red, Green, Blue } decoding 01 00 00 00 as "Green"
C6_Witness ==
    /\ typ.kind = "Enum"
    /\ typ.variants = << <<0, "Red">>, <<1, "Green">>, <<2, "Blue">> >>
    /\ data = <<1, 0, 0, 0>>
    /\ parsed = [k |-> "str", v |-> "Green"]

\* size and alignment of a Union are the maxima over its variants
UnionExtent ==
    /\ \A i \in 1..Len(typ.variants) :
          typ.variants[i][2].size <= typ.size /\ typ.variants[i][2].align <= typ.align
    /\ \E i \in 1..Len(typ.variants) : typ.variants[i][2].size = typ.size
    /\ \E i \in 1..Len(typ.variants) : typ.variants[i][2].align = typ.align

\* the entry for variant i: that variant's type decoding the leading bytes
LeadingDecode(i) ==
    ParseType(typ.variants[i][2],
              [j \in 1..typ.variants[i][2].size |-> data[j]])

\* the decode has one entry per variant name, each the leading decode
OneEntryPerVariant ==
    /\ parsed.k = "dict"
    /\ Len(parsed.v) = Len(typ.variants)
    /\ \A i \in 1..Len(typ.variants) :
          /\ parsed.v[i][1] = typ.variants[i][1]
          /\ parsed.v[i][2] = LeadingDecode(i)

\* C7 (as claimed): decoding a buffer of the union's size always yields one
\* entry per variant name.
C7_UnionAlwaysDecodes ==
    (typ.kind = "Union" /\ parsed # NoResult /\ Len(data) = typ.size) =>
        (UnionExtent /\ OneEntryPerVariant)

\* C7 (amended): size and alignment are the maxima over the variants; decoding
\* a buffer of the union's size yields one entry per variant name, each the
\* variant's decode of the first variant.size bytes, provided each of those
\* decodes succeeds, and fails as soon as one of them fails.
C7_UnionDecode ==
    typ.kind = "Union" =>
        /\ UnionExtent
        /\ (parsed # NoResult /\ Len(data) = typ.size) =>
              IF \A i \in 1..Len(typ.variants) : LeadingDecode(i) # Fail
              THEN OneEntryPerVariant
              ELSE parsed = Fail

\* a union of two variants of different sizes, decoded from a full buffer
C7_Witness ==
    /\ typ.kind = "Union"
    /\ Len(typ.variants) = 2
    /\ typ.variants[1][2].size < typ.variants[2][2].size
    /\ Len(data) = typ.size
    /\ parsed.k = "dict"


\* the types a Struct or an Array hands to _get_parts
SlicedTypes(t) ==
    IF t.kind = "Struct" THEN DictValues(t.members) ELSE Repeat(t.item, t.count)

\* the offset at which the loop of _calc places the k-th type
LayoutStart(types, k) == CalcPad(CalcIdx(types, k - 1), types[k].align)

\* C11: for a buffer as long as the computed size, the i-th slice of
\* _get_parts is the byte range [start_i, start_i + size_i) of the layout: it
\* has length size_i, lies within the buffer, and the ranges are disjoint and
\* in increasing order.
C11_SlicesMatchLayout ==
    (parsed # NoResult /\ typ.kind \in {"Struct", "Array"} /\ Len(data) = typ.size) =>
        LET ts == SlicedTypes(typ)
        IN  /\ Len(parts) = Len(ts)
            /\ \A i \in 1..Len(ts) :
                  LET start == LayoutStart(ts, i)
                  IN  /\ start = PlacedStart(ts, i)
                      /\ start + ts[i].size <= Len(data)
                      /\ Len(parts[i]) = ts[i].size
                      /\ parts[i] = SubSeq(data, start + 1, start + ts[i].size)
                      /\ i < Len(ts) => start + ts[i].size <= LayoutStart(ts, i + 1)

\* a struct with padding in front of its second member has decoded the buffer
\* whose bytes are their own offsets, and the second slice starts after the gap
C11_Witness ==
    /\ typ.kind = "Struct"
    /\ Len(typ.members) = 2
    /\ parsed # NoResult
    /\ typ.size > 0
    /\ data = Stamped(typ.size)
    /\ LET ts == DictValues(typ.members)
       IN  /\ PlacedStart(ts, 2) > PlacedEnd(ts, 1)
           /\ Len(parts) = 2
           /\ parts[2] # <<>>
           /\ parts[2][1] = PlacedStart(ts, 2)

----------------------------------------------------------------------------
(* Properties of the evaluator, checked under SpecCalc *)

LastNode == tree[Len(tree)]

\* the last node visited was `typedef Name<args> B;` and resolve was called
Instantiated ==
    /\ Len(tree) > 0
    /\ LastNode.data = "typedef"
    /\ LastNode.type.data = "type_generic"
    /\ resolved # NoResolution
    /\ DictHas(ctxs[cur].templates, LastNode.type.name)

\* the template the instantiated name denotes
InstantiatedBase == DictGet(ctxs[cur].templates, LastNode.type.name)

\* the last templated_struct node of the file that declares name n
LastTemplateNode(n) ==
    tree[CHOOSE i \in 1..Len(tree) :
            /\ tree[i].data = "templated_struct" /\ tree[i].name = n
            /\ \A j \in (i + 1)..Len(tree) :
                  ~(tree[j].data = "templated_struct" /\ tree[j].name = n)]

\* C2: instantiating a templated struct yields a Struct with one member per
\* field declared in the template body, in declaration order, each typed by
\* the field's type expression with the parameters bound to the arguments.
C2_InstanceHasTemplateFields ==
    (Instantiated /\ resolved.k = "renderer" /\ resolved.tmpl = InstantiatedBase) =>
        LET body == LastTemplateNode(LastNode.type.name).items
            expected == StructFields(resolved.ctxt, body, Len(body))
        IN  /\ status = "parsing"
            /\ DictHas(ctxs[cur].types, LastNode.name)
            /\ LET made == DictGet(ctxs[cur].types, LastNode.name)
               IN  /\ made.kind = "Struct"
                   /\ expected.k = "ok"
                   /\ made.members = expected.dict

\* every argument of the instantiation can be evaluated by the caller
ArgsEvaluable(args) ==
    \A i \in 1..Len(args) :
        args[i].data = "type_name" => DictHas(ctxs[cur].types, args[i].name)

\* candidate tid accepts args: same arity, and every pinned parameter equals
\* the evaluated argument
Matches(tid, args) ==
    /\ Len(args) = Len(tmpls[tid].params)
    /\ \A i \in 1..Len(args) :
          LET param == tmpls[tid].params[i][2]
          IN  IF param.is_type
              THEN /\ args[i].data = "type_name"
                   /\ param.has_default =>
                         TypeEq(param.dtype, DictGet(ctxs[cur].types, args[i].name))
              ELSE /\ args[i].data = "number"
                   /\ param.has_default => param.dval = args[i].val

\* C3: resolution returns the renderer of the most recently registered
\* specialization that matches the arguments, the base template's renderer if
\* no specialization matches but the base does, and nothing otherwise.
C3_LatestMatchingWins ==
    (Instantiated /\ ArgsEvaluable(LastNode.type.args)) =>
        LET args == LastNode.type.args
            vs == tmpls[InstantiatedBase].variants
            matching == {j \in 1..Len(vs) : Matches(vs[j], args)}
        IN  IF matching # {}
            THEN resolved.k = "renderer" /\ resolved.tmpl = vs[SetMax(matching)]
            ELSE IF Matches(InstantiatedBase, args)
            THEN resolved.k = "renderer" /\ resolved.tmpl = InstantiatedBase
            ELSE resolved = None

\* two specializations, the older pinned and the newer generic or the other way
\* round, both match the arguments, and the newer one is chosen
C3_Witness ==
    /\ Instantiated
    /\ ArgsEvaluable(LastNode.type.args)
    /\ LET vs == tmpls[InstantiatedBase].variants
       IN  /\ Len(vs) = 2
           /\ Matches(vs[1], LastNode.type.args)
           /\ Matches(vs[2], LastNode.type.args)
           /\ tmpls[vs[1]].params # tmpls[vs[2]].params
           /\ resolved.k = "renderer"
           /\ resolved.tmpl = vs[2]

\* C9: a step that inserts into or rebinds a Context's mappings changes no
\* other Context: the root keeps exactly the built-in types, no names and no
\* templates, every Context other than the running Calculate's is unchanged,
\* and the running one gains at most the name the visited node declares.
C9_CloneIndependence ==
    [][/\ ctxs'[0] = BASE_CTXT
       /\ \A c \in CtxIds :
             (ctxs[c] # NoCtx /\ c # cur') => ctxs'[c] = ctxs[c]
       /\ (cur' = cur /\ Len(tree') > 0) =>
             /\ ctxs'[cur].names = ctxs[cur].names
             /\ DictKeys(ctxs'[cur].types) \subseteq
                   DictKeys(ctxs[cur].types) \cup {tree'[Len(tree')].name}
             /\ DictKeys(ctxs'[cur].templates) \subseteq
                   DictKeys(ctxs[cur].templates) \cup {tree'[Len(tree')].name}]_vars

\* two parse_file runs have filled their own clones and a template of the
\* second one has been instantiated
C9_Witness ==
    /\ ctxs[0] = BASE_CTXT
    /\ ctxs[1] # NoCtx /\ ctxs[1] # BASE_CTXT
    /\ cur = 2 /\ ctxs[2] # BASE_CTXT /\ ctxs[2] # ctxs[1]
    /\ resolved.k = "renderer"

\* C10: the Context a template is instantiated in is the snapshot taken at its
\* definition: apart from the bound parameters it holds no template and no
\* Struct, Union or Enum created at or after the template's definition.
C10_SnapshotAtDefinition ==
    resolved.k = "renderer" =>
        LET self == tmpls[resolved.tmpl]
            seen == resolved.ctxt
        IN  /\ \A i \in 1..Len(seen.templates) : seen.templates[i][2] < resolved.tmpl
            /\ \A i \in 1..Len(seen.types) :
                  (/\ ~\E j \in 1..Len(self.params) :
                          self.params[j][2].name = seen.types[i][1]
                   /\ seen.types[i][2].kind \in {"Struct", "Union", "Enum"})
                  => seen.types[i][2].id < resolved.tmpl

----------------------------------------------------------------------------
(* Properties of template resolution and registration, checked under SpecTmpl *)

\* the candidates of a resolve call in the order they are tried
Candidates(base) ==
    LET vs == tmpls[base].variants
    IN  [j \in 1..(Len(vs) + 1) |-> IF j <= Len(vs) THEN vs[Len(vs) + 1 - j] ELSE base]

\* an argument that is a name stands where the template takes a constant:
\* evaluating it looks the name up among the constants
NameForConstant(base, args) ==
    \E i \in 1..Min(Len(args), Len(tmpls[base].params)) :
        ~tmpls[base].params[i][2].is_type /\ args[i].data = "type_name"

\* resolve accepted only a candidate of the arguments' arity whose pinned
\* parameters equal the arguments, after skipping every candidate tried
\* before it; with no such candidate it returned None
ResolvedByMatch ==
    Instantiated =>
        LET args == LastNode.type.args
            order == Candidates(InstantiatedBase)
            accepting == {j \in 1..Len(order) : Matches(order[j], args)}
        IN  /\ resolved.k = "renderer" => Matches(resolved.tmpl, args)
            /\ ~NameForConstant(InstantiatedBase, args) =>
                  IF accepting = {} THEN resolved = None
                  ELSE /\ resolved.k = "renderer"
                       /\ resolved.tmpl =
                             order[CHOOSE j \in accepting : \A l \in accepting : j <= l]

\* a step that visits `typedef Name<args> B;` without getting a renderer
\* fails the run, creates no object and binds nothing
NoStructWithoutMatch ==
    LET node == tree'[Len(tree')]
    IN  (/\ Len(tree') = Len(tree) + 1
         /\ node.data = "typedef"
         /\ node.type.data = "type_generic"
         /\ resolved'.k # "renderer")
        => /\ status' = "failed"
           /\ nobj' = nobj
           /\ ctxs'[cur].types = ctxs[cur].types

\* C12: a candidate matches only if the arity is equal and every pinned
\* parameter equals the evaluated argument; candidates with a differing
\* pinned value or arity are skipped and the next one is tried; when none
\* matches, resolve reports no match and Name<args> fails without a Struct.
C12_MatchOrSkip == [][ResolvedByMatch' /\ NoStructWithoutMatch]_vars

\* the newest specialization was skipped for its pinned constant, the older one
\* accepted; and a run where nothing matched
C12_Witness ==
    /\ Instantiated
    /\ Len(tmpls[InstantiatedBase].variants) = 2
    /\ LET vs == tmpls[InstantiatedBase].variants
           args == LastNode.type.args
       IN  /\ Len(args) = 2
           /\ args[2].data = "number"
           /\ tmpls[vs[2]].params[2][2].has_default
           /\ ~tmpls[vs[2]].params[2][2].is_type
           /\ tmpls[vs[2]].params[2][2].dval # args[2].val
           /\ Matches(vs[1], args)
           /\ resolved.k = "renderer"
           /\ resolved.tmpl = vs[1]

\* the parameter with the given name among those a specialization declares
OwnParam(own, name) == CHOOSE q \in {own[j] : j \in 1..Len(own)} : q.name = name
DeclaresParam(own, name) == \E j \in 1..Len(own) : own[j].name = name

\* the argument can be pinned for a base parameter of that kind
Pinnable(cal, is_type, item) ==
    IF is_type THEN item.data = "type_name" /\ DictHas(cal.types, item.name)
    ELSE item.data = "number"

\* what registration records for base parameter p and argument item
Recorded(cal, own, p, item) ==
    IF item.data = "type_name" /\ DeclaresParam(own, item.name)
    THEN TemplateParam(item.name,
                       OwnParam(own, item.name).data = "template_param_type")
    ELSE IF p.is_type THEN PinnedType(p.name, DictGet(cal.types, item.name))
    ELSE PinnedConst(p.name, item.val)

\* C13: registering a specialization fails when the number of arguments
\* differs from the base's parameter count; otherwise each argument naming a
\* parameter of the specialization is recorded as that generic parameter and
\* every other argument as the pinned type or constant, the new Template is
\* appended to the base's variants, and the base's parameters and the earlier
\* variants stay as they were.
C13_Registration ==
    [][LET node == tree'[Len(tree')]
       IN  (/\ Len(tree') = Len(tree) + 1
            /\ node.data = "templated_substituted_struct"
            /\ DictHas(ctxs[cur].templates, node.name))
           => LET base == DictGet(ctxs[cur].templates, node.name)
                  ps == tmpls[base].params
                  sub == node.substitution
              IN  IF Len(sub) # Len(ps)
                  THEN status' = "failed" /\ tmpls' = tmpls /\ ctxs' = ctxs
                  ELSE (\A i \in 1..Len(ps) :
                           \/ (sub[i].data = "type_name"
                                  /\ DeclaresParam(node.template, sub[i].name))
                           \/ Pinnable(ctxs[cur], ps[i][2].is_type, sub[i]))
                       => /\ status' = status
                          /\ nobj' = nobj + 1
                          /\ tmpls'[nobj'].params =
                                [i \in 1..Len(ps) |->
                                    <<ps[i][1],
                                      Recorded(ctxs[cur], node.template, ps[i][2], sub[i])>>]
                          /\ tmpls'[nobj'].variants = <<>>
                          /\ tmpls'[base].variants = Append(tmpls[base].variants, nobj')
                          /\ tmpls'[base].params = ps
                          /\ \A t \in ObjIds \ {base, nobj'} : tmpls'[t] = tmpls[t]
                          /\ ctxs' = ctxs]_vars

\* a second specialization, template <typename U, int M> struct Arr<U, 3>, has
\* been registered behind the first: one generic and one pinned parameter
C13_Witness ==
    /\ Len(tree) > 0
    /\ LastNode.data = "templated_substituted_struct"
    /\ status = "parsing"
    /\ DictHas(ctxs[cur].templates, "Arr")
    /\ LET base == DictGet(ctxs[cur].templates, "Arr")
           vs == tmpls[base].variants
       IN  /\ Len(vs) = 2
           /\ vs[2] = nobj
           /\ LastNode.substitution = <<TypeName("U"), Number(3)>>
           /\ tmpls[nobj].params =
                 << <<"T", TemplateParam("U", TRUE)>>, <<"N", PinnedConst("N", 3)>> >>

----------------------------------------------------------------------------
(* Properties of type equality, checked under SpecIdent *)

\* what a Type object is equal by: the object itself for Struct, Union and
\* Enum, width and signedness for Integer, width for Float, count and the
\* item's key for Array
RECURSIVE EqualityKey(_)
EqualityKey(t) ==
    CASE t.kind = "Integer" -> <<"Integer", t.size, t.signed>>
      [] t.kind = "Float" -> <<"Float", t.size>>
      [] t.kind = "Boolean" -> <<"Boolean">>
      [] t.kind = "Array" -> <<"Array", t.count, EqualityKey(t.item)>>
      [] OTHER -> <<t.kind, t.id>>

\* the type the single argument of the instantiation names
ArgType == DictGet(ctxs[cur].types, LastNode.type.args[1].name)

\* C14: two Type objects are equal iff they are the same Struct, Union or Enum
\* object, Integers of the same width and signedness, Floats of the same
\* width, Booleans, or Arrays of equal count and equal items; resolution
\* picks the newest specialization pinned to a type equal in this sense to
\* the argument (so one pinned to P serves Alias but not Q), else the base.
C14_EqualityByIdentity ==
    /\ compared # <<>> =>
          compared[3] = (EqualityKey(compared[1]) = EqualityKey(compared[2]))
    /\ Instantiated =>
          LET vs == tmpls[InstantiatedBase].variants
              same == {j \in 1..Len(vs) :
                          EqualityKey(tmpls[vs[j]].params[1][2].dtype)
                              = EqualityKey(ArgType)}
          IN  /\ resolved.k = "renderer"
              /\ resolved.tmpl = IF same = {} THEN InstantiatedBase ELSE vs[SetMax(same)]

\* Box<P> is the only specialization
SpecializedOnP ==
    /\ Instantiated
    /\ Len(tmpls[InstantiatedBase].variants) = 1
    /\ tmpls[tmpls[InstantiatedBase].variants[1]].params[1][2].dtype
          = DictGet(ctxs[cur].types, "P")

\* with Box<P> the only specialization, Box<Q> resolved to the base although Q
\* has the members and the layout of P
C14_Witness ==
    /\ SpecializedOnP
    /\ LastNode.type.args[1].name = "Q"
    /\ resolved.tmpl = InstantiatedBase
    /\ DictGet(ctxs[cur].types, "Q").members = DictGet(ctxs[cur].types, "P").members
    /\ DictGet(ctxs[cur].types, "Q").size = DictGet(ctxs[cur].types, "P").size

----------------------------------------------------------------------------
(* Properties of Calculate.enum, checked under SpecEnum *)

\* the value of the i-th variant: its literal, else 0 for the first variant,
\* else one more than the variant before
RECURSIVE Assigned(_, _)
Assigned(variants, i) ==
    IF variants[i].value.has THEN variants[i].value.val
    ELSE IF i = 1 THEN 0 ELSE Assigned(variants, i - 1) + 1

\* an enum declaration has just been visited
EnumDeclared ==
    /\ Len(tree) > 0
    /\ LastNode.data = "enum"
    /\ status = "parsing"

\* C15 (as claimed): the Enum bound under the declared name maps the value of
\* every variant to that variant's name.
C15_EveryVariantMapped ==
    EnumDeclared =>
        /\ DictHas(ctxs[cur].types, LastNode.name)
        /\ LET enum == DictGet(ctxs[cur].types, LastNode.name)
               vs == LastNode.variants
           IN  /\ enum.kind = "Enum"
               /\ \A i \in 1..Len(vs) :
                     /\ DictHas(enum.variants, Assigned(vs, i))
                     /\ DictGet(enum.variants, Assigned(vs, i)) = vs[i].name

\* C15: variant values are the literal, else 0 for the first variant, else the
\* previous value + 1; the Enum bound under the declared name has exactly the
\* assigned values as keys and maps each to the name of the last variant that
\* was assigned it.
C15_EnumValues ==
    EnumDeclared =>
        /\ DictHas(ctxs[cur].types, LastNode.name)
        /\ LET enum == DictGet(ctxs[cur].types, LastNode.name)
               vs == LastNode.variants
               last(v) == CHOOSE i \in 1..Len(vs) :
                             /\ Assigned(vs, i) = v
                             /\ \A j \in (i + 1)..Len(vs) : Assigned(vs, j) # v
           IN  /\ enum.kind = "Enum"
               /\ {enum.variants[j][1] : j \in 1..Len(enum.variants)}
                     = {Assigned(vs, i) : i \in 1..Len(vs)}
               /\ \A i \in 1..Len(vs) :
                     DictGet(enum.variants, Assigned(vs, i))
                         = vs[last(Assigned(vs, i))].name

\* a declaration with an explicit value in the middle and an implicit one
\* after it, all values distinct
C15_Witness ==
    /\ EnumDeclared
    /\ LET vs == LastNode.variants
       IN  /\ Len(vs) = 3
           /\ ~vs[1].value.has /\ vs[2].value.has /\ ~vs[3].value.has
           /\ vs[2].value.val > 1
           /\ DictGet(ctxs[cur].types, "E").variants =
                 << <<0, vs[1].name>>, <<vs[2].value.val, vs[2].name>>,
                    <<vs[2].value.val + 1, vs[3].name>> >>

----------------------------------------------------------------------------
(* Properties of the types the evaluator constructs, checked under SpecLayout *)

\* a Type object and every Type object it holds
RECURSIVE Constructed(_)
Constructed(t) ==
    {t} \cup
    CASE t.kind = "Struct" ->
            UNION {Constructed(t.members[i][2]) : i \in 1..Len(t.members)}
      [] t.kind = "Union" ->
            UNION {Constructed(t.variants[i][2]) : i \in 1..Len(t.variants)}
      [] t.kind = "Array" -> Constructed(t.item)
      [] OTHER -> {}

\* C16 (as claimed): every Type bound in a Context, and every Type nested in
\* it, has a size that is a multiple of its alignment.
C16_SizeMultipleOfAlign ==
    \A c \in CtxIds :
        ctxs[c] # NoCtx =>
            \A i \in 1..Len(ctxs[c].types) :
                \A t \in Constructed(ctxs[c].types[i][2]) : t.size % t.align = 0

----------------------------------------------------------------------------
(* Properties of the root Context, checked under SpecCalc *)

\* the fixed-width integer names of BASE_TYPES: name, bit width, signedness
FixedWidthNames ==
    {<<"int16_t", 16, TRUE>>, <<"int32_t", 32, TRUE>>, <<"int64_t", 64, TRUE>>,
     <<"uint16_t", 16, FALSE>>, <<"uint32_t", 32, FALSE>>, <<"uint64_t", 64, FALSE>>}

\* C18 (as claimed): in the root Context each fixed-width integer name
\* resolves to an Integer of width/8 bytes, signed for intN_t and unsigned for
\* uintN_t, `int` resolves to a signed 4-byte Integer, and each has its size
\* as its alignment.
C18_BuiltinIntegers ==
    \A e \in FixedWidthNames \cup {<<"int", 32, TRUE>>} :
        LET r == type_name(ctxs[0], e[1])
        IN  /\ r.k = "ok"
            /\ r.typ.kind = "Integer"
            /\ r.typ.size = e[2] \div 8
            /\ r.typ.signed = e[3]
            /\ r.typ.align = r.typ.size

----------------------------------------------------------------------------
(* Properties of the Preprocessor, checked under SpecPre *)

HasPragma(f) == \E i \in 1..Len(files[f]) : files[f][i].kind = "pragma"

\* how often pass-through line i of file f occurs in the text
Occurrences(text, f, i) == Cardinality({j \in 1..Len(text) : text[j] = Emitted(f, i)})

\* C8: once include_file has returned, every file with `#pragma once` that was
\* processed has each of its pass-through lines exactly once in the output.
C8_PragmaOnceTextOnce ==
    pstatus = "done" =>
        \A f \in included_files :
            HasPragma(f) =>
                \A i \in 1..Len(files[f]) :
                    files[f][i].kind = "text" => Occurrences(output, f, i) = 1

\* the files named by the `#include "..."` lines of f
Includes(f) ==
    {files[f][i].file : i \in {j \in 1..Len(files[f]) : files[f][j].kind = "include"}}

\* the files reached from f by at most n nested includes
RECURSIVE IncludedWithin(_, _)
IncludedWithin(f, n) ==
    IF n = 0 THEN {}
    ELSE Includes(f) \cup UNION {IncludedWithin(g, n - 1) : g \in Includes(f)}

OnCycle(f) == f \in IncludedWithin(f, Cardinality(FileNames))

\* f has a `#pragma once` line before each of its `#include` lines
PragmaBeforeIncludes(f) ==
    \E i \in 1..Len(files[f]) :
        /\ files[f][i].kind = "pragma"
        /\ \A j \in 1..Len(files[f]) : files[f][j].kind \in {"include", "std"} => i < j

GuardedCycles == \A f \in FileNames : OnCycle(f) => PragmaBeforeIncludes(f)

Terminated == pstatus \in {"done", "failed"}

====
